---- MODULE Spec2Model ----
\* A model of the formatted output engine of the kernel (kernel/src/lib/printk.c):
\* printk, parse_format_spec and the converters print_number, print_unsigned and
\* print_hex.  One printk call is a state machine: the state is the template in
\* memory, the scanning pointer, the variadic argument list with its cursor, and the
\* sequence of bytes handed to uart_putc so far.
EXTENDS Integers, Sequences, FiniteSets, TLC

VARIABLES
    format,   \* memory at the template pointer: the template, its NUL, the bytes after
    fp,       \* printk's `format` pointer, as an index into that memory (1 = first byte)
    args,     \* the variadic arguments, one 64-bit slot each
    ap,       \* va_list cursor: the number of slots consumed so far
    out,      \* every byte passed to uart_putc (kputc), in call order
    pc,       \* "loop": at the head of printk's while loop; "done": printk returned
    last,     \* what the latest loop iteration did (history, never read by the code)
    calls,    \* the printk calls completed so far: template, arguments, bytes emitted
    num_addr, \* hex_dump: the start address (unsigned long)num_addr
    len,      \* hex_dump: the length argument
    row_addr, \* hex_dump: the row loop's variable
    hpc,      \* hex_dump: "idle", "row" (at the head of the row loop) or "done"
    rows,     \* hex_dump: the number of rows printed so far (history)
    row,      \* hex_dump: the latest row's base and text, every address read (history)
    fifo,     \* UART: the bytes in the transmit FIFO, oldest first
    wire,     \* UART: the bytes the hardware has sent on the line (history)
    sent,     \* the number of bytes of `out` whose uart_putc call has returned
    upc,      \* uart_putc: "idle", "poll" (in the wait loop) or "write"
    wedged,   \* UART: TRUE when the hardware never takes a byte from the FIFO
    smem,     \* uart_puts: memory at the string pointer
    sp,       \* uart_puts: the pointer s, as an index into that memory
    spc,      \* uart_puts: "idle", "loop" or "done"
    level     \* the log macro the current printk call comes from, or "none"

printk_vars == <<format, fp, args, ap, out, pc, last>>

dump_vars == <<num_addr, len, row_addr, hpc, rows, row>>

\* What a step inside one printk call leaves alone.
sink_vars == <<fifo, wire, sent, upc, wedged>>

puts_vars == <<smem, sp, spc>>

\* What neither printk nor hex_dump touches.
rest == <<sink_vars, puts_vars, level>>

others == <<calls, dump_vars, rest>>

vars == <<printk_vars, calls, dump_vars, rest>>

-----------------------------------------------------------------------------
\* Characters are their ASCII codes, as in C.

CharTable ==
    << " ", "!", "dquote", "#", "$", "%", "&", "'", "(", ")", "*", "+", ",", "-", ".", "/",
       "0", "1", "2", "3", "4", "5", "6", "7", "8", "9", ":", ";", "<", "=", ">", "?",
       "@", "A", "B", "C", "D", "E", "F", "G", "H", "I", "J", "K", "L", "M", "N", "O",
       "P", "Q", "R", "S", "T", "U", "V", "W", "X", "Y", "Z", "[", "backslash", "]", "^", "_",
       "backtick", "a", "b", "c", "d", "e", "f", "g", "h", "i", "j", "k", "l", "m", "n", "o",
       "p", "q", "r", "s", "t", "u", "v", "w", "x", "y", "z", "{", "|", "}", "~" >>

Ord(c) == 31 + (CHOOSE i \in 1..Len(CharTable) : CharTable[i] = c)

\* The bytes of a text written as a tuple of one-character strings.
Bytes(t) == [i \in 1..Len(t) |-> Ord(t[i])]

NUL == 0
LF == 10
CH_PERCENT == Ord("%")
CH_MINUS == Ord("-")
CH_PLUS == Ord("+")
CH_SPACE == Ord(" ")
CH_HASH == Ord("#")
CH_DOT == Ord(".")
CH_0 == Ord("0")
CH_9 == Ord("9")
CH_a == Ord("a")
CH_A == Ord("A")
CH_c == Ord("c")
CH_d == Ord("d")
CH_h == Ord("h")
CH_l == Ord("l")
CH_p == Ord("p")
CH_s == Ord("s")
CH_u == Ord("u")
CH_x == Ord("x")
CH_X == Ord("X")

\* char is 8 bits wide: kputc(val) with an int keeps the low byte.
ToChar(v) == v % 256

-----------------------------------------------------------------------------
\* unsigned long / long: 64 bits, held as four 16-bit limbs, most significant first.

LimbBase == 2^16
Limbs == 1..4
Zero64 == <<0, 0, 0, 0>>

\* A small non-negative number as a 64-bit value.
U64(n) == <<0, 0, (n \div LimbBase) % LimbBase, n % LimbBase>>

\* num < 0 for a (signed) long: the top bit.
IsNegative(num) == num[1] >= LimbBase \div 2

\* ~x
Not64(x) == [i \in Limbs |-> LimbBase - 1 - x[i]]

\* x + n (mod 2^64) for a small n >= 0
RECURSIVE AddSmallFrom(_, _, _)
AddSmallFrom(x, i, carry) ==
    IF i = 0 \/ carry = 0 THEN x
    ELSE LET t == x[i] + carry
         IN AddSmallFrom([x EXCEPT ![i] = t % LimbBase], i - 1, t \div LimbBase)

AddSmall(x, n) == AddSmallFrom(x, 4, n)

\* -(unsigned long)num: negation in the unsigned domain, modulo 2^64.
Neg64(x) == AddSmall(Not64(x), 1)

\* num / d and num % d for unsigned long num and a small divisor d (10 or 16):
\* schoolbook division, most significant limb first.
RECURSIVE DivModFrom(_, _, _, _)
DivModFrom(x, d, i, rem) ==
    IF i > 4 THEN [quot |-> x, rem |-> rem]
    ELSE LET cur == rem * LimbBase + x[i]
         IN DivModFrom([x EXCEPT ![i] = cur \div d], d, i + 1, cur % d)

Div64(x, d) == DivModFrom(x, d, 1, 0).quot
Mod64(x, d) == DivModFrom(x, d, 1, 0).rem

\* (long)(int) of a slot: the low 32 bits, sign-extended.
SignExtend32(slot) ==
    LET s == IF slot[3] >= LimbBase \div 2 THEN LimbBase - 1 ELSE 0
    IN <<s, s, slot[3], slot[4]>>

\* (unsigned long)(unsigned int) of a slot: the low 32 bits, zero-extended.
ZeroExtend32(slot) == <<0, 0, slot[3], slot[4]>>

-----------------------------------------------------------------------------
\* Small sequence helpers.

Repeat(n, c) == [i \in 1..n |-> c]

Reverse(s) == [i \in 1..Len(s) |-> s[Len(s) + 1 - i]]

RECURSIVE Flatten(_)
Flatten(ss) == IF ss = <<>> THEN <<>> ELSE Head(ss) \o Flatten(Tail(ss))

-----------------------------------------------------------------------------
\* format_spec_t (printk.c:8-18) and the converters.

ZeroSpec ==
    [ pad_with_zeros |-> FALSE, left_align |-> FALSE, show_sign |-> FALSE,
      alt_form |-> FALSE, width |-> 0, precision |-> 0, has_precision |-> FALSE,
      length_modifier |-> NUL, type |-> NUL ]

\* A variant that complements a negative number without adding one.
Magnitude_OnesComplement(num) == IF IsNegative(num) THEN Not64(num) ELSE num

\* unsigned long unum = (num < 0) ? -(unsigned long)num : (unsigned long)num;
Magnitude(num) == IF IsNegative(num) THEN Neg64(num) ELSE num

\* while (num > 0) { buffer[i++] = '0' + (num % 10); num /= 10; }
RECURSIVE DecimalLoop(_, _)
DecimalLoop(num, buffer) ==
    IF num = Zero64 THEN buffer
    ELSE DecimalLoop(Div64(num, 10), Append(buffer, CH_0 + Mod64(num, 10)))

\* A variant without the special case for zero: no digit at all for 0.
DecimalBuffer_NoZero(num) == DecimalLoop(num, <<>>)

\* The digit buffer of print_number / print_unsigned, least significant digit first.
DecimalBuffer(num) ==
    IF num = Zero64 THEN <<CH_0>> ELSE DecimalLoop(num, <<>>)

\* A variant that ignores the letter case asked for.
HexDigit_LowerOnly(digit, capital) ==
    IF digit < 10 THEN CH_0 + digit ELSE CH_a + (digit - 10)

\* (digit < 10) ? ('0' + digit) : ((capital ? 'A' : 'a') + (digit - 10))
HexDigit(digit, capital) ==
    IF digit < 10 THEN CH_0 + digit
    ELSE (IF capital THEN CH_A ELSE CH_a) + (digit - 10)

RECURSIVE HexLoop(_, _, _)
HexLoop(num, capital, buffer) ==
    IF num = Zero64 THEN buffer
    ELSE HexLoop(Div64(num, 16), capital,
                 Append(buffer, HexDigit(Mod64(num, 16), capital)))

\* A variant that also stores a "0x" prefix in the buffer.
HexBuffer_WithPrefix(num, capital) ==
    (IF num = Zero64 THEN <<CH_0>> ELSE HexLoop(num, capital, <<>>)) \o <<CH_x, CH_0>>

\* The digit buffer of print_hex, least significant digit first.
HexBuffer(num, capital) ==
    IF num = Zero64 THEN <<CH_0>> ELSE HexLoop(num, capital, <<>>)

\* int pad = (spec.width > digits + (negative ? 1 : 0))
\*           ? (spec.width - digits - (negative ? 1 : 0)) : 0;
SignedPad(spec, digits, negative) ==
    IF spec.width > digits + (IF negative THEN 1 ELSE 0)
    THEN spec.width - digits - (IF negative THEN 1 ELSE 0)
    ELSE 0

\* A variant that never pads.
UnsignedPad_None(spec, digits) == IF spec.width > digits THEN 0 ELSE 0

\* int pad = (spec.width > digits) ? (spec.width - digits) : 0;
UnsignedPad(spec, digits) ==
    IF spec.width > digits THEN spec.width - digits ELSE 0

\* char padder = spec.pad_with_zeros ? '0' : ' ';
Padder(spec) == IF spec.pad_with_zeros THEN CH_0 ELSE CH_SPACE

\* while (i > 0) kputc(buffer[--i]);
EmitBuffer(buffer) == Reverse(buffer)

\* A variant that honours the '+' flag.
print_number_ShowSign(num, spec) ==
    LET unum == Magnitude(num)
        negative == IsNegative(num)
        buffer == DecimalBuffer(unum)
        sign == IF negative THEN <<CH_MINUS>>
                ELSE IF spec.show_sign THEN <<CH_PLUS>> ELSE <<>>
        pad == IF spec.width > Len(buffer) + Len(sign)
               THEN spec.width - Len(buffer) - Len(sign) ELSE 0
    IN  (IF spec.pad_with_zeros THEN sign ELSE <<>>)
        \o Repeat(pad, Padder(spec))
        \o (IF ~spec.pad_with_zeros THEN sign ELSE <<>>)
        \o EmitBuffer(buffer)

\* A variant that always puts the sign after the padding.
print_number_SignAfterPad(num, spec) ==
    LET unum == Magnitude(num)
        negative == IsNegative(num)
        buffer == DecimalBuffer(unum)
        pad == SignedPad(spec, Len(buffer), negative)
    IN  Repeat(pad, Padder(spec))
        \o (IF negative THEN <<CH_MINUS>> ELSE <<>>)
        \o EmitBuffer(buffer)

\* The kputc calls of print_number(num, spec), in order.
print_number(num, spec) ==
    LET unum == Magnitude(num)
        negative == IsNegative(num)
        buffer == DecimalBuffer(unum)
        pad == SignedPad(spec, Len(buffer), negative)
    IN  (IF negative /\ spec.pad_with_zeros THEN <<CH_MINUS>> ELSE <<>>)
        \o Repeat(pad, Padder(spec))
        \o (IF negative /\ ~spec.pad_with_zeros THEN <<CH_MINUS>> ELSE <<>>)
        \o EmitBuffer(buffer)

\* A variant that cuts the digits down to the field width.
print_unsigned_Truncated(num, spec) ==
    LET buffer == DecimalBuffer(num)
        pad == UnsignedPad(spec, Len(buffer))
        kept == IF spec.width > 0 /\ spec.width < Len(buffer)
                THEN SubSeq(buffer, 1, spec.width) ELSE buffer
    IN  Repeat(pad, Padder(spec)) \o EmitBuffer(kept)

\* The kputc calls of print_unsigned(num, spec), in order.
print_unsigned(num, spec) ==
    LET buffer == DecimalBuffer(num)
        pad == UnsignedPad(spec, Len(buffer))
    IN  Repeat(pad, Padder(spec)) \o EmitBuffer(buffer)

\* The kputc calls of print_hex(num, capital, spec), in order.
print_hex(num, capital, spec) ==
    LET buffer == HexBuffer(num, capital)
        pad == UnsignedPad(spec, Len(buffer))
    IN  Repeat(pad, Padder(spec)) \o EmitBuffer(buffer)

-----------------------------------------------------------------------------
\* parse_format_spec (printk.c:112-156).  mem is the memory at the template
\* pointer; a parse result is the descriptor and the advanced pointer.

\* **format: the byte at index p (memory past the modelled region reads as NUL).
At(mem, p) == IF p \in 1..Len(mem) THEN mem[p] ELSE NUL

IsFlag(c) == c \in {CH_MINUS, CH_PLUS, CH_SPACE, CH_HASH, CH_0}

IsDigit(c) == c >= CH_0 /\ c <= CH_9

\* while (**format == '-' || ... || **format == '0') { ...; (*format)++; }
RECURSIVE ParseFlags(_, _, _)
ParseFlags(mem, p, spec) ==
    LET c == At(mem, p)
    IN  IF IsFlag(c)
        THEN ParseFlags(mem, p + 1,
                 [spec EXCEPT !.left_align = @ \/ c = CH_MINUS,
                              !.pad_with_zeros = @ \/ c = CH_0,
                              !.show_sign = @ \/ c = CH_PLUS,
                              !.alt_form = @ \/ c = CH_HASH])
        ELSE [spec |-> spec, fp |-> p]

\* while (**format >= '0' && **format <= '9') { n = n * 10 + (**format - '0'); (*format)++; }
RECURSIVE ParseNumber(_, _, _)
ParseNumber(mem, p, n) ==
    LET c == At(mem, p)
    IN  IF IsDigit(c) THEN ParseNumber(mem, p + 1, n * 10 + (c - CH_0))
        ELSE [n |-> n, fp |-> p]

\* if (**format == '.') { spec.has_precision = true; (*format)++; while (digit) ... }
ParsePrecision(mem, p, spec) ==
    IF At(mem, p) = CH_DOT
    THEN LET r == ParseNumber(mem, p + 1, spec.precision)
         IN  [spec |-> [spec EXCEPT !.has_precision = TRUE, !.precision = r.n],
              fp |-> r.fp]
    ELSE [spec |-> spec, fp |-> p]

\* A variant that accepts a second length letter.
ParseLength_Twice(mem, p, spec) ==
    IF At(mem, p) = CH_l \/ At(mem, p) = CH_h
    THEN [spec |-> [spec EXCEPT !.length_modifier = At(mem, p)],
          fp |-> IF At(mem, p + 1) = CH_l \/ At(mem, p + 1) = CH_h THEN p + 2 ELSE p + 1]
    ELSE [spec |-> spec, fp |-> p]

\* if (**format == 'l' || **format == 'h') { spec.length_modifier = **format; (*format)++; }
ParseLength(mem, p, spec) ==
    IF At(mem, p) = CH_l \/ At(mem, p) = CH_h
    THEN [spec |-> [spec EXCEPT !.length_modifier = At(mem, p)], fp |-> p + 1]
    ELSE [spec |-> spec, fp |-> p]

\* spec.type = **format; (*format)++;
ParseType(mem, p, spec) ==
    [spec |-> [spec EXCEPT !.type = At(mem, p)], fp |-> p + 1]

parse_format_spec(mem, p) ==
    LET f == ParseFlags(mem, p + 1, ZeroSpec)
        w == ParseNumber(mem, f.fp, f.spec.width)
        pr == ParsePrecision(mem, w.fp, [f.spec EXCEPT !.width = w.n])
        ln == ParseLength(mem, pr.fp, pr.spec)
    IN  ParseType(mem, ln.fp, ln.spec)

-----------------------------------------------------------------------------
\* Memory holding the strings a %s argument may point to.  Each region is the
\* memory from the pointer on: the string, its terminator, and what follows it.

PTR_HI == <<0, 0, 16384, 4096>>        \* 0x40001000
PTR_EMPTY == <<0, 0, 16384, 8192>>     \* 0x40002000
PTR_PCT == <<0, 0, 16384, 12288>>      \* 0x40003000

MemoryAt(ptr) ==
    CASE ptr = PTR_HI -> Bytes(<<"h", "i">>) \o <<NUL>> \o Bytes(<<"Z">>) \o <<NUL>>
      [] ptr = PTR_EMPTY -> <<NUL>> \o Bytes(<<"Q">>) \o <<NUL>>
      [] ptr = PTR_PCT -> Bytes(<<"%", "d">>) \o <<LF, NUL>> \o Bytes(<<"!">>) \o <<NUL>>
      [] OTHER -> <<NUL>>

\* while (*str) { kputc(*str++); }  -- the bytes emitted, and how many bytes of
\* the string were read (the terminator included).
RECURSIVE StringLoop(_, _, _)
StringLoop(mem, i, text) ==
    IF At(mem, i) = NUL THEN [text |-> text, nread |-> i]
    ELSE StringLoop(mem, i + 1, Append(text, At(mem, i)))

\* A variant without the null check.
PrintString_NoNullCheck(str) == StringLoop(MemoryAt(str), 1, <<>>)

\* if (str) { while (*str) ... } else { kputc('('); ... kputc(')'); }
PrintString(str) ==
    IF str # Zero64 THEN StringLoop(MemoryAt(str), 1, <<>>)
    ELSE [text |-> Bytes(<<"(", "n", "u", "l", "l", ")">>), nread |-> 0]

\* A variant that leaves the parsed width and flags in force.
PrintPointer_KeepSpec(ptr, spec) ==
    IF ptr = Zero64 THEN Bytes(<<"(", "n", "i", "l", ")">>)
    ELSE <<CH_0, CH_x>> \o print_hex(ptr, FALSE, spec)

\* case 'p': "(nil)" for NULL, else "0x" and print_hex with width 16, zero padded.
PrintPointer(ptr, spec) ==
    IF ptr = Zero64 THEN Bytes(<<"(", "n", "i", "l", ")">>)
    ELSE LET ptr_spec == [spec EXCEPT !.width = 16, !.pad_with_zeros = TRUE]
         IN  <<CH_0, CH_x>> \o print_hex(ptr, FALSE, ptr_spec)

\* num = (spec.length_modifier == 'l') ? va_arg(ap, long) : va_arg(ap, int);
SignedArg(slot, spec) ==
    IF spec.length_modifier = CH_l THEN slot ELSE SignExtend32(slot)

\* A variant that narrows the value to 16 bits under the 'h' modifier.
UnsignedArg_Short(slot, spec) ==
    IF spec.length_modifier = CH_l THEN slot
    ELSE IF spec.length_modifier = CH_h THEN <<0, 0, 0, slot[4]>>
    ELSE ZeroExtend32(slot)

\* A variant that takes all 64 bits whatever the length modifier.
UnsignedArg_Always64(slot, spec) == slot

\* num = (spec.length_modifier == 'l') ? va_arg(ap, unsigned long)
\*                                     : va_arg(ap, unsigned int);
UnsignedArg(slot, spec) ==
    IF spec.length_modifier = CH_l THEN slot ELSE ZeroExtend32(slot)

\* int val = va_arg(ap, int); kputc(val);
CharArg(slot) == ToChar(slot[4])

-----------------------------------------------------------------------------
\* printk (printk.c:158-258), one action per path through the body of its loop.

\* What a va_arg past the last supplied argument may read.
StraySlots == {Zero64, <<65535, 65535, 65535, 65535>>}

\* A variant that restarts the argument list at every va_arg.
va_arg_Restarted == IF Len(args) > 0 THEN {args[1]} ELSE StraySlots

\* va_arg(ap, T): the slots the next va_arg can yield.
va_arg == IF ap < Len(args) THEN {args[ap + 1]} ELSE StraySlots

\* A variant that queues the new text ahead of what was emitted before.
kputc_Prepend(sofar, text) == text \o sofar

\* kputc(c) is uart_putc(c): the calls are made at once, in order.
kputc(sofar, text) == sofar \o text

\* The descriptor parsed at the pointer (meaningful when *format == '%').
Parsed == parse_format_spec(format, fp)

AtDirective(type) ==
    /\ pc = "loop"
    /\ At(format, fp) = CH_PERCENT
    /\ Parsed.spec.type = type

\* The end of one iteration of a directive: the pointer is past the directive,
\* `took` arguments were consumed and `text` went to uart_putc.
Iterated(took, slot, text, nread) ==
    /\ fp' = Parsed.fp
    /\ ap' = ap + took
    /\ out' = kputc(out, text)
    /\ last' = [isdir |-> TRUE, start |-> fp, spec |-> Parsed.spec, took |-> took,
                arg |-> slot, text |-> text, nread |-> nread]
    /\ UNCHANGED <<format, args, pc, others>>

\* while (*format) is false: va_end(ap); return.
Return ==
    /\ pc = "loop"
    /\ At(format, fp) = NUL
    /\ pc' = "done"
    /\ UNCHANGED <<format, fp, args, ap, out, last, others>>

\* A variant that, like uart_puts, sends a '\r' before each '\n'.
Literal_Crlf ==
    /\ pc = "loop"
    /\ At(format, fp) # NUL
    /\ At(format, fp) # CH_PERCENT
    /\ fp' = fp + 1
    /\ out' = kputc(out, IF At(format, fp) = LF THEN <<13, LF>> ELSE <<At(format, fp)>>)
    /\ last' = [isdir |-> FALSE, start |-> fp, spec |-> ZeroSpec, took |-> 0,
                arg |-> Zero64, nread |-> 0,
                text |-> IF At(format, fp) = LF THEN <<13, LF>> ELSE <<At(format, fp)>>]
    /\ UNCHANGED <<format, args, ap, pc, others>>

\* else { kputc(*format++); }
Literal ==
    /\ pc = "loop"
    /\ At(format, fp) # NUL
    /\ At(format, fp) # CH_PERCENT
    /\ fp' = fp + 1
    /\ out' = kputc(out, <<At(format, fp)>>)
    /\ last' = [isdir |-> FALSE, start |-> fp, spec |-> ZeroSpec, took |-> 0,
                arg |-> Zero64, text |-> <<At(format, fp)>>, nread |-> 0]
    /\ UNCHANGED <<format, args, ap, pc, others>>

\* A variant that consumes an argument for "%%".
CasePercent_TakesArg ==
    /\ AtDirective(CH_PERCENT)
    /\ \E slot \in va_arg : Iterated(1, slot, <<CH_PERCENT>>, 0)

\* case '%': kputc('%');
CasePercent ==
    /\ AtDirective(CH_PERCENT)
    /\ Iterated(0, Zero64, <<CH_PERCENT>>, 0)

\* case 'c'
CaseChar ==
    /\ AtDirective(CH_c)
    /\ \E slot \in va_arg : Iterated(1, slot, <<CharArg(slot)>>, 0)

\* case 's'
CaseString ==
    /\ AtDirective(CH_s)
    /\ \E slot \in va_arg :
          Iterated(1, slot, PrintString(slot).text, PrintString(slot).nread)

\* case 'd'
CaseSigned ==
    /\ AtDirective(CH_d)
    /\ \E slot \in va_arg :
          Iterated(1, slot, print_number(SignedArg(slot, Parsed.spec), Parsed.spec), 0)

\* case 'u'
CaseUnsigned ==
    /\ AtDirective(CH_u)
    /\ \E slot \in va_arg :
          Iterated(1, slot, print_unsigned(UnsignedArg(slot, Parsed.spec), Parsed.spec), 0)

\* case 'p'
CasePointer ==
    /\ AtDirective(CH_p)
    /\ \E slot \in va_arg : Iterated(1, slot, PrintPointer(slot, Parsed.spec), 0)

\* case 'x'
CaseHexLower ==
    /\ AtDirective(CH_x)
    /\ \E slot \in va_arg :
          Iterated(1, slot,
                   print_hex(UnsignedArg(slot, Parsed.spec), FALSE, Parsed.spec), 0)

\* case 'X'
CaseHexUpper ==
    /\ AtDirective(CH_X)
    /\ \E slot \in va_arg :
          Iterated(1, slot,
                   print_hex(UnsignedArg(slot, Parsed.spec), TRUE, Parsed.spec), 0)

SupportedTypes == {CH_PERCENT, CH_c, CH_s, CH_d, CH_u, CH_p, CH_x, CH_X}

\* A variant that echoes an unrecognized directive's '%' and type character.
CaseNone_Echo ==
    /\ pc = "loop"
    /\ At(format, fp) = CH_PERCENT
    /\ Parsed.spec.type \notin SupportedTypes
    /\ Iterated(0, Zero64, <<CH_PERCENT, Parsed.spec.type>>, 0)

\* The switch has no default: any other type falls out of it.
CaseNone ==
    /\ pc = "loop"
    /\ At(format, fp) = CH_PERCENT
    /\ Parsed.spec.type \notin SupportedTypes
    /\ Iterated(0, Zero64, <<>>, 0)

\* switch (spec.type): what a directive emits for the slot the next va_arg
\* yields, and how many slots it consumes.
Conversion(spec, slot) ==
    CASE spec.type = CH_PERCENT -> [took |-> 0, text |-> <<CH_PERCENT>>]
      [] spec.type = CH_c -> [took |-> 1, text |-> <<CharArg(slot)>>]
      [] spec.type = CH_s -> [took |-> 1, text |-> PrintString(slot).text]
      [] spec.type = CH_d ->
            [took |-> 1, text |-> print_number(SignedArg(slot, spec), spec)]
      [] spec.type = CH_u ->
            [took |-> 1, text |-> print_unsigned(UnsignedArg(slot, spec), spec)]
      [] spec.type = CH_p -> [took |-> 1, text |-> PrintPointer(slot, spec)]
      [] spec.type = CH_x ->
            [took |-> 1, text |-> print_hex(UnsignedArg(slot, spec), FALSE, spec)]
      [] spec.type = CH_X ->
            [took |-> 1, text |-> print_hex(UnsignedArg(slot, spec), TRUE, spec)]
      [] OTHER -> [took |-> 0, text |-> <<>>]

\* A whole printk call on memory mem with the given slots: the uart_putc calls
\* it makes, in order (a va_arg past the supplied slots reads a zero slot).
RECURSIVE PrintkFrom(_, _, _, _, _)
PrintkFrom(mem, p, slots, k, sofar) ==
    IF At(mem, p) = NUL THEN sofar
    ELSE IF At(mem, p) # CH_PERCENT
    THEN PrintkFrom(mem, p + 1, slots, k, kputc(sofar, <<At(mem, p)>>))
    ELSE LET r == parse_format_spec(mem, p)
             cv == Conversion(r.spec, IF k < Len(slots) THEN slots[k + 1] ELSE Zero64)
         IN  PrintkFrom(mem, r.fp, slots, k + cv.took, kputc(sofar, cv.text))

printk(template, slots) == PrintkFrom(template \o <<NUL>>, 1, slots, 0, <<>>)

-----------------------------------------------------------------------------
\* The calls examined: templates and the argument slots passed with them.

MaxWidth == 22     \* field widths 0..MaxWidth are written into directives
MaxSegs == 3       \* templates of up to MaxSegs pieces (literals and directives)

\* Argument slots for the numeric directives: 64-bit register contents.
NumValues ==
    { Zero64, U64(1), U64(9), U64(10), U64(42), U64(255),
      <<0, 0, 65535, 65494>>,            \* (int)-42 in a zero-extended register
      <<65535, 65535, 65535, 65494>>,    \* (long)-42
      <<0, 0, 32767, 65535>>,            \* INT_MAX
      <<0, 0, 32768, 0>>,                \* INT_MIN as an int, 2^31 as a long
      <<0, 0, 57005, 48879>>,            \* 0xdeadbeef
      <<57005, 48879, 0, 42>>,           \* 42 below unspecified upper bits
      <<0, 1, 0, 0>>,                    \* 2^32
      <<65535, 65535, 32768, 0>>,        \* 0xFFFFFFFF80000000
      <<32767, 65535, 65535, 65535>>,    \* LONG_MAX
      <<32768, 0, 0, 0>>,                \* LONG_MIN
      <<65535, 65535, 65535, 65535>> }   \* ULONG_MAX, (long)-1

FewValues == { U64(42), <<65535, 65535, 65535, 65494>>, <<0, 0, 57005, 48879>> }

CH_q == Ord("q")

\* The slots a caller passes to a directive of the given type.
ArgsFor(type) ==
    CASE type = CH_c -> { <<U64(65)>>, <<U64(37)>>, <<U64(LF)>>, <<U64(256 + 66)>> }
      [] type = CH_s -> { <<Zero64>>, <<PTR_HI>>, <<PTR_EMPTY>>, <<PTR_PCT>> }
      [] type = CH_p -> { <<Zero64>>, <<PTR_HI>>, <<U64(42)>>,
                          << <<65535, 65535, 0, 10>> >>, << <<32768, 0, 0, 0>> >> }
      [] type \in {CH_d, CH_u, CH_x, CH_X} -> { <<v>> : v \in FewValues }
      [] OTHER -> { <<>> }

\* The decimal digits of a width or precision, as written in a template.
NumberText(n) ==
    IF n < 10 THEN <<CH_0 + n>> ELSE <<CH_0 + (n \div 10), CH_0 + (n % 10)>>

WidthText(w) == IF w = 0 THEN <<>> ELSE NumberText(w)

Directive(flags, w, prec, lmod, type) ==
    <<CH_PERCENT>> \o flags \o WidthText(w) \o prec \o lmod \o <<type>>

Call(text, slots) == [text |-> text, args |-> slots]

\* One numeric directive: every width, with and without '0' and 'l', every value.
NumericCalls ==
    { Call(Directive(fl, w, <<>>, ln, ty), <<v>>) :
        fl \in {<<>>, <<CH_0>>}, w \in 0..MaxWidth, ln \in {<<>>, <<CH_l>>},
        ty \in {CH_d, CH_u, CH_x, CH_X}, v \in NumValues }

FlagRuns ==
    { <<>>, <<CH_0>>, <<CH_MINUS>>, <<CH_PLUS>>, <<CH_SPACE, CH_HASH>>,
      <<CH_MINUS, CH_0>> }

Precisions == { <<>>, <<CH_DOT>>, <<CH_DOT>> \o NumberText(2) }

Lengths == { <<>>, <<CH_l>>, <<CH_h>> }

\* One directive of any type, with flags, width, precision and length modifier.
DirectiveCalls ==
    UNION { { Call(Directive(fl, w, pr, ln, ty), a) : a \in ArgsFor(ty) } :
        fl \in FlagRuns, w \in {0, 3, MaxWidth}, pr \in Precisions, ln \in Lengths,
        ty \in SupportedTypes \cup {CH_q} }

\* Pieces that templates of several segments are put together from.
Pieces ==
    { Call(Bytes(<<"a">>), <<>>),
      Call(<<LF>>, <<>>),
      Call(Bytes(<<"%", "%">>), <<>>),
      Call(Bytes(<<"%", "d">>), <<<<0, 0, 65535, 65494>>>>),
      Call(Bytes(<<"%", "0", "4", "l", "x">>), << <<0, 1, 0, 255>> >>),
      Call(Bytes(<<"%", "s">>), <<PTR_HI>>),
      Call(Bytes(<<"%", "c">>), <<U64(66)>>),
      Call(Bytes(<<"%", "q">>), <<>>) }

Join(ps) ==
    Call(Flatten([i \in 1..Len(ps) |-> ps[i].text]),
         Flatten([i \in 1..Len(ps) |-> ps[i].args]))

PieceCalls ==
    UNION { { Join(ps) : ps \in [1..n -> Pieces] } : n \in 0..MaxSegs }

\* Templates that end inside a directive.
TruncatedCalls ==
    { Call(Bytes(t), <<>>) :
        t \in { <<"%">>, <<"%", "0">>, <<"%", "8">>, <<"%", ".">>, <<"%", "l">>,
                <<"a", "%">> } }

\* Calls after the examples of docs/printk.md and the LOG_DEBUG call of
\* kernel_main, each with the output expected of it.
Example(text, slots, expect) == [text |-> text, args |-> slots, expect |-> expect]

DocExamples ==
    { Example(Bytes(<<"C", "o", "u", "n", "t", ":", " ", "%", "d">>) \o <<LF>>,
              << <<0, 0, 65535, 65494>> >>,
              Bytes(<<"C", "o", "u", "n", "t", ":", " ", "-", "4", "2">>) \o <<LF>>),
      Example(Bytes(<<"F", "l", "a", "g", "s", ":", " ", "%", "X">>) \o <<LF>>,
              <<U64(57005)>>,
              Bytes(<<"F", "l", "a", "g", "s", ":", " ", "D", "E", "A", "D">>) \o <<LF>>),
      Example(Bytes(<<"%", "p", "!">>),
              <<PTR_HI>>,
              Bytes(<<"0", "x", "0", "0", "0", "0", "0", "0", "0", "0",
                      "4", "0", "0", "0", "1", "0", "0", "0", "!">>)),
      Example(Bytes(<<"O", "S", ":", " ", "%", "s">>) \o <<LF>>,
              <<PTR_HI>>,
              Bytes(<<"O", "S", ":", " ", "h", "i">>) \o <<LF>>),
      Example(Bytes(<<"5", "0", "%", "%">>) \o <<LF>>,
              <<>>,
              Bytes(<<"5", "0", "%">>) \o <<LF>>),
      Example(Bytes(<<"[", "%", "0", "8", "d", "]">>) \o <<LF>>,
              << <<0, 0, 65535, 65494>> >>,
              Bytes(<<"[", "-", "0", "0", "0", "0", "0", "4", "2", "]">>) \o <<LF>>),
      Example(Bytes(<<"[", "%", "8", "x", "]">>) \o <<LF>>,
              <<U64(255)>>,
              Bytes(<<"[", " ", " ", " ", " ", " ", " ", "f", "f", "]">>) \o <<LF>>),
      Example(Bytes(<<"v", "=", "%", "d", ",", " ", "a", "=", "0", "x", "%", "x">>)
                \o <<LF>>,
              << U64(42), <<0, 0, 57005, 48879>> >>,
              Bytes(<<"v", "=", "4", "2", ",", " ", "a", "=", "0", "x",
                      "d", "e", "a", "d", "b", "e", "e", "f">>) \o <<LF>>) }

DocCalls == { Call(e.text, e.args) : e \in DocExamples }

\* Directives whose parts are out of order, doubled or all present.
GrammarCalls ==
    { Call(Bytes(t), <<U64(42)>>) :
        t \in { <<"%", "8", "-", "d">>, <<"%", "l", "l", "d">>, <<"%", "h", "h", "d">>,
                <<"%", "0", "1", "0", "d">>, <<"%", "l", "8", "d">>,
                <<"%", ".", "5", ".", "2", "d">>, <<"%", "1", "2", " ", "x">>,
                <<"%", "-", "+", " ", "#", "0", "0", "8", ".", "3", "l", "x">> } }

Calls ==
    NumericCalls \cup DirectiveCalls \cup PieceCalls \cup TruncatedCalls \cup DocCalls
    \cup GrammarCalls

\* The bytes that follow the template's terminator in memory.
Tails == { <<NUL>>, Bytes(<<"x">>) \o <<NUL>> }

\* Before the first loop iteration of a call.
NoIteration ==
    [isdir |-> FALSE, start |-> 0, spec |-> ZeroSpec, took |-> 0,
     arg |-> Zero64, text |-> <<>>, nread |-> 0]

\* No row printed yet.
NoRow == [base |-> Zero64, text |-> <<>>, reads |-> <<>>]

\* hex_dump is not running.
NoDump ==
    /\ num_addr = Zero64
    /\ len = 0
    /\ row_addr = Zero64
    /\ hpc = "idle"
    /\ rows = 0
    /\ row = NoRow

\* The UART is empty and idle, uart_puts is not running, no log macro is used.
NoRest ==
    /\ fifo = <<>>
    /\ wire = <<>>
    /\ sent = 0
    /\ upc = "idle"
    /\ wedged = FALSE
    /\ smem = <<NUL>>
    /\ sp = 1
    /\ spc = "idle"
    /\ level = "none"

Init ==
    \E call \in Calls, tail \in Tails :
        /\ format = call.text \o <<NUL>> \o tail
        /\ args = call.args
        /\ fp = 1
        /\ ap = 0
        /\ out = <<>>
        /\ pc = "loop"
        /\ last = NoIteration
        /\ calls = <<>>
        /\ NoDump
        /\ NoRest

Next ==
    \/ Literal
    \/ CasePercent
    \/ CaseChar
    \/ CaseString
    \/ CaseSigned
    \/ CaseUnsigned
    \/ CasePointer
    \/ CaseHexLower
    \/ CaseHexUpper
    \/ CaseNone
    \/ Return

Spec == Init /\ [][Next]_vars

-----------------------------------------------------------------------------
\* Reference arithmetic for stating the properties: a digit string is read back
\* by Horner's rule (multiply and add), independently of the converters' division.

\* x * m + a for small m and a: the low 64 bits and the carry out of them.
RECURSIVE MulAddFrom(_, _, _, _)
MulAddFrom(x, m, i, carry) ==
    IF i = 0 THEN [val |-> x, carry |-> carry]
    ELSE LET t == x[i] * m + carry
         IN  MulAddFrom([x EXCEPT ![i] = t % LimbBase], m, i - 1, t \div LimbBase)

\* a + b modulo 2^64
RECURSIVE AddFrom(_, _, _, _)
AddFrom(a, b, i, carry) ==
    IF i = 0 THEN a
    ELSE LET t == a[i] + b[i] + carry
         IN  AddFrom([a EXCEPT ![i] = t % LimbBase], b, i - 1, t \div LimbBase)

Add64(a, b) == AddFrom(a, b, 4, 0)

\* The value of a digit character in the given base and letter case, or -1.
DigitValue(c, base, upper) ==
    IF c >= CH_0 /\ c <= CH_9 THEN c - CH_0
    ELSE IF base = 16 /\ ~upper /\ c >= CH_a /\ c <= CH_a + 5 THEN c - CH_a + 10
    ELSE IF base = 16 /\ upper /\ c >= CH_A /\ c <= CH_A + 5 THEN c - CH_A + 10
    ELSE -1

\* The number a digit string denotes, most significant digit first; ok is FALSE
\* when a character is no digit of the base or the number exceeds 64 bits.
RECURSIVE ReadFrom(_, _, _, _, _)
ReadFrom(ds, base, upper, i, acc) ==
    IF i > Len(ds) THEN [val |-> acc, ok |-> TRUE]
    ELSE LET dv == DigitValue(ds[i], base, upper)
             r == MulAddFrom(acc, base, 4, dv)
         IN  IF dv < 0 \/ dv >= base \/ r.carry # 0
             THEN [val |-> Zero64, ok |-> FALSE]
             ELSE ReadFrom(ds, base, upper, i + 1, r.val)

ReadDigits(ds, base, upper) == ReadFrom(ds, base, upper, 1, Zero64)

\* ds is the canonical representation of `value`: at least one digit, no leading
\* zero unless it is the single digit 0, and it denotes the value.
Canonical(ds, base, upper, value) ==
    /\ Len(ds) >= 1
    /\ Len(ds) = 1 \/ ds[1] # CH_0
    /\ ReadDigits(ds, base, upper) = [val |-> value, ok |-> TRUE]

\* The value a directive is given, read off the argument slot it consumed.
Wide(spec) == spec.length_modifier = CH_l

Low32(slot) == <<0, 0, slot[3], slot[4]>>

\* The unsigned value: all 64 bits with 'l', the low 32 bits without.
UnsignedValue(spec, slot) == IF Wide(spec) THEN slot ELSE Low32(slot)

\* The signed value is negative: bit 63 with 'l', bit 31 without.
SignedNegative(spec, slot) ==
    IF Wide(spec) THEN slot[1] >= 32768 ELSE slot[3] >= 32768

\* m is |v| for the signed value v: v itself when v >= 0, else the m > 0 with
\* m + (v's bit pattern) = 2^64 (with 'l') or 2^32 (without).
IsMagnitude(m, spec, slot) ==
    IF SignedNegative(spec, slot)
    THEN /\ m # Zero64
         /\ Add64(m, UnsignedValue(spec, slot))
              = (IF Wide(spec) THEN Zero64 ELSE <<0, 1, 0, 0>>)
    ELSE m = UnsignedValue(spec, slot)

\* ds is the canonical decimal digit string of |v|.
CanonicalMagnitude(ds, spec, slot) ==
    /\ Len(ds) >= 1
    /\ Len(ds) = 1 \/ ds[1] # CH_0
    /\ LET r == ReadDigits(ds, 10, FALSE)
       IN  r.ok /\ IsMagnitude(r.val, spec, slot)

Suffix(s, n) == SubSeq(s, Len(s) - n + 1, Len(s))

Prefix(s, n) == SubSeq(s, 1, n)

Max(a, b) == IF a >= b THEN a ELSE b

\* The index of the template's terminator, and the template before it.
NulIndex == CHOOSE i \in 1..Len(format) : format[i] = NUL /\ \A j \in 1..(i - 1) : format[j] # NUL

Template == SubSeq(format, 1, NulIndex - 1)

\* The latest iteration handled a directive of one of the given types.
Did(types) == last.isdir /\ last.spec.type \in types

-----------------------------------------------------------------------------
\* Properties of one printk call.

Range(s) == {s[i] : i \in 1..Len(s)}

NotMinus(c) == c # CH_MINUS

INT_M42 == <<0, 0, 65535, 65494>>      \* the int -42
LONG_MINIMUM == <<32768, 0, 0, 0>>     \* -2^63

\* C1: the uart_putc calls of a printk call are the renderings of the template's
\* segments in template order: every iteration of the loop moves the pointer
\* forward over one segment and appends that segment's characters, one call
\* each, after everything emitted before; nothing already emitted is changed,
\* and a literal character is emitted as itself.  The documented calls end with
\* exactly their documented output.
C1_EmitsInTemplateOrder ==
    [][ (pc = "loop" /\ pc' = "loop") =>
            /\ fp' > fp
            /\ last'.start = fp
            /\ out' = out \o last'.text
            /\ Len(out') = Len(out) + Len(last'.text)
            /\ (At(format, fp) # CH_PERCENT => last'.text = <<At(format, fp)>>) ]_vars
    /\ [](pc = "done" =>
            \A e \in DocExamples :
                (Template = e.text /\ args = e.args) => out = e.expect)

\* A directive that is not the first segment has emitted several characters
\* after those of the segments before it.
C1_Witness ==
    /\ pc = "done"
    /\ ap = 2
    /\ Template = Bytes(<<"v", "=", "%", "d", ",", " ", "a", "=", "0", "x", "%", "x">>)
                    \o <<LF>>
    /\ out = Bytes(<<"v", "=", "4", "2", ",", " ", "a", "=", "0", "x",
                     "d", "e", "a", "d", "b", "e", "e", "f">>) \o <<LF>>

\* C2: a template without '%' is emitted verbatim up to its terminator ('\n' as
\* a single '\n'), and no variadic argument is consumed.
C2_PlainTemplateVerbatim ==
    CH_PERCENT \notin Range(Template) =>
        /\ fp <= NulIndex
        /\ out = Prefix(format, fp - 1)
        /\ ap = 0
        /\ (pc = "done" => out = Template)

C2_Witness ==
    /\ pc = "done"
    /\ CH_PERCENT \notin Range(Template)
    /\ LF \in Range(Template)
    /\ Len(Template) >= 2
    /\ out = Template

\* C3: a width-less %d / %ld emits an optional '-' and then the canonical decimal
\* digits of |v| (v the 32-bit value, or the 64-bit one with 'l'); a width-less
\* %u / %lu emits the canonical decimal digits of u; the value 0 is "0" under
\* %d, %u and %x alike.
C3_CanonicalDecimal ==
    /\ (Did({CH_d}) /\ last.spec.width = 0) =>
          LET neg == SignedNegative(last.spec, last.arg)
          IN  /\ Len(last.text) >= 1
              /\ neg <=> last.text[1] = CH_MINUS
              /\ CanonicalMagnitude(IF neg THEN Tail(last.text) ELSE last.text,
                                    last.spec, last.arg)
    /\ (Did({CH_u}) /\ last.spec.width = 0) =>
          Canonical(last.text, 10, FALSE, UnsignedValue(last.spec, last.arg))
    /\ (/\ Did({CH_d, CH_u, CH_x})
        /\ last.spec.width = 0
        /\ UnsignedValue(last.spec, last.arg) = Zero64) => last.text = <<CH_0>>

\* %d of the int INT_MIN: "-2147483648".
C3_Witness ==
    /\ Did({CH_d}) /\ last.spec.width = 0 /\ ~Wide(last.spec)
    /\ last.arg = <<0, 0, 32768, 0>>
    /\ last.text = Bytes(<<"-", "2", "1", "4", "7", "4", "8", "3", "6", "4", "8">>)

\* C4: %ld of -2^63 takes the magnitude in the unsigned domain, 2^63, and emits
\* exactly "-9223372036854775808".
C4_LongMin ==
    (/\ Did({CH_d}) /\ Wide(last.spec)
     /\ last.arg = LONG_MINIMUM
     /\ last.spec.width <= 20) =>
        /\ Magnitude(last.arg) = LONG_MINIMUM
        /\ last.text = Bytes(<<"-", "9", "2", "2", "3", "3", "7", "2", "0", "3", "6",
                               "8", "5", "4", "7", "7", "5", "8", "0", "8">>)

C4_Witness ==
    /\ Did({CH_d}) /\ Wide(last.spec)
    /\ last.arg = LONG_MINIMUM
    /\ last.spec.width = 0
    /\ Len(last.text) = 20
    /\ pc = "done"

\* C5: %d of a negative value with a field width w above the natural length
\* (digits + 1) emits exactly w characters: with the '0' flag '-', then
\* w-1-digits zeros, then the digits; without it w-1-digits spaces, then '-',
\* then the digits.  %08d of -42 is "-0000042", %8d of -42 is "     -42".
C5_NegativePadding ==
    /\ (Did({CH_d}) /\ SignedNegative(last.spec, last.arg)) =>
          \E n \in 1..(Len(last.text) - 1) :
              LET ds == Suffix(last.text, n)
                  w == last.spec.width
              IN  /\ CanonicalMagnitude(ds, last.spec, last.arg)
                  /\ w > n + 1 =>
                        /\ Len(last.text) = w
                        /\ last.text =
                             IF last.spec.pad_with_zeros
                             THEN <<CH_MINUS>> \o Repeat(w - 1 - n, CH_0) \o ds
                             ELSE Repeat(w - 1 - n, CH_SPACE) \o <<CH_MINUS>> \o ds
    /\ (/\ Did({CH_d}) /\ last.arg = INT_M42 /\ ~Wide(last.spec)
        /\ last.spec.width = 8) =>
          last.text = IF last.spec.pad_with_zeros
                      THEN Bytes(<<"-", "0", "0", "0", "0", "0", "4", "2">>)
                      ELSE Bytes(<<" ", " ", " ", " ", " ", "-", "4", "2">>)

C5_Witness ==
    /\ Did({CH_d}) /\ last.arg = INT_M42 /\ ~Wide(last.spec)
    /\ last.spec.width = 8 /\ last.spec.pad_with_zeros
    /\ last.text = Bytes(<<"-", "0", "0", "0", "0", "0", "4", "2">>)

\* The digits a numeric directive must end with: the canonical digits of its value.
IsDigitsOf(ds, spec, slot) ==
    CASE spec.type = CH_d -> CanonicalMagnitude(ds, spec, slot)
      [] spec.type = CH_u -> Canonical(ds, 10, FALSE, UnsignedValue(spec, slot))
      [] spec.type = CH_x -> Canonical(ds, 16, FALSE, UnsignedValue(spec, slot))
      [] spec.type = CH_X -> Canonical(ds, 16, TRUE, UnsignedValue(spec, slot))
      [] OTHER -> FALSE

\* C6: a numeric directive (d, u, x, X) with field width w emits max(w, natural
\* length) characters, the natural length being the digit count plus one for a
\* '-'; what precedes the digits is, besides that sign, w - natural length
\* padding characters ('0' with the '0' flag, else ' '); the complete digit
\* string ends the output even when it is longer than w.
C6_WidthAndPadding ==
    Did({CH_d, CH_u, CH_x, CH_X}) =>
        \E n \in 1..Len(last.text) :
            LET ds == Suffix(last.text, n)
                pre == Prefix(last.text, Len(last.text) - n)
                s == IF last.spec.type = CH_d /\ SignedNegative(last.spec, last.arg)
                     THEN 1 ELSE 0
                w == last.spec.width
            IN  /\ IsDigitsOf(ds, last.spec, last.arg)
                /\ Len(last.text) = Max(w, n + s)
                /\ Len(pre) - Len(SelectSeq(pre, NotMinus)) = s
                /\ SelectSeq(pre, NotMinus)
                     = Repeat(Max(w, n + s) - n - s,
                              IF last.spec.pad_with_zeros THEN CH_0 ELSE CH_SPACE)

\* %3lu of 2^64-1: all twenty digits although the width is 3.
C6_Witness ==
    /\ Did({CH_u}) /\ Wide(last.spec)
    /\ last.spec.width = 3
    /\ last.arg = <<65535, 65535, 65535, 65535>>
    /\ Len(last.text) = 20

\* C7: %x emits padding and then the base-16 digits of the unsigned value, most
\* significant first, in '0'-'9' and 'a'-'f'; %X the same with 'A'-'F'; there is
\* no sign and no prefix.  0xFF is "ff", "FF" and, with %04x, "00ff".
C7_Hexadecimal ==
    /\ Did({CH_x, CH_X}) =>
          \E n \in 1..Len(last.text) :
              /\ Canonical(Suffix(last.text, n), 16, last.spec.type = CH_X,
                           UnsignedValue(last.spec, last.arg))
              /\ Prefix(last.text, Len(last.text) - n)
                   = Repeat(Len(last.text) - n,
                            IF last.spec.pad_with_zeros THEN CH_0 ELSE CH_SPACE)
    /\ (Did({CH_x, CH_X}) /\ last.arg = U64(255) /\ last.spec.width = 0) =>
          last.text = IF last.spec.type = CH_x THEN Bytes(<<"f", "f">>)
                      ELSE Bytes(<<"F", "F">>)
    /\ (/\ Did({CH_x}) /\ last.arg = U64(255) /\ last.spec.width = 4
        /\ last.spec.pad_with_zeros) => last.text = Bytes(<<"0", "0", "f", "f">>)

C7_Witness ==
    /\ Did({CH_X}) /\ last.arg = <<0, 0, 57005, 48879>>
    /\ last.spec.alt_form
    /\ last.text = Bytes(<<"D", "E", "A", "D", "B", "E", "E", "F">>)

\* C8: %p of a null pointer emits "(nil)"; of any other pointer "0x" and exactly
\* 16 lowercase hexadecimal digits denoting it, whatever the flags, width or
\* precision of the directive.
C8_Pointer ==
    Did({CH_p}) =>
        IF last.arg = Zero64
        THEN last.text = Bytes(<<"(", "n", "i", "l", ")">>)
        ELSE /\ Len(last.text) = 18
             /\ Prefix(last.text, 2) = Bytes(<<"0", "x">>)
             /\ ReadDigits(Suffix(last.text, 16), 16, FALSE)
                  = [val |-> last.arg, ok |-> TRUE]

\* %-022.2lp of 0x40001000
C8_Witness ==
    /\ Did({CH_p}) /\ last.arg = PTR_HI
    /\ last.spec.left_align /\ last.spec.pad_with_zeros /\ last.spec.has_precision
    /\ last.spec.width > 18
    /\ last.text = Bytes(<<"0", "x", "0", "0", "0", "0", "0", "0", "0", "0",
                           "4", "0", "0", "0", "1", "0", "0", "0">>)

\* The index of the first NUL of a memory region.
FirstNul(mem) == CHOOSE i \in 1..Len(mem) : mem[i] = NUL /\ \A j \in 1..(i - 1) : mem[j] # NUL

\* C9: %s of a null pointer emits "(null)"; of a string, its bytes before the
\* first NUL, in order, reading nothing after that NUL.
C9_String ==
    Did({CH_s}) =>
        IF last.arg = Zero64
        THEN last.text = Bytes(<<"(", "n", "u", "l", "l", ")">>) /\ last.nread = 0
        ELSE LET mem == MemoryAt(last.arg)
             IN  /\ last.text = Prefix(mem, FirstNul(mem) - 1)
                 /\ last.nread = FirstNul(mem)

C9_Witness ==
    /\ Did({CH_s}) /\ last.arg = PTR_PCT
    /\ last.spec.has_precision
    /\ last.text = Bytes(<<"%", "d">>) \o <<LF>>
    /\ last.nread = 4

\* C10: "%%" (with or without flags and width) emits exactly one '%' and
\* consumes no argument, so a later directive is given the argument it would
\* have been given without it.
C10_PercentLiteral ==
    /\ [][ AtDirective(CH_PERCENT) => (ap' = ap /\ out' = out \o <<CH_PERCENT>>) ]_vars
    /\ [](pc = "done" /\ Template = Bytes(<<"%", "%", "%", "d">>)
            => out = Bytes(<<"%", "-", "4", "2">>))

C10_Witness ==
    /\ pc = "done"
    /\ Template = Bytes(<<"%", "%", "%", "d">>)
    /\ out = Bytes(<<"%", "-", "4", "2">>)
    /\ ap = 1


\* The types whose case calls va_arg.
ConsumingTypes == {CH_c, CH_s, CH_d, CH_u, CH_x, CH_X, CH_p}

\* C11: every directive of type c, s, d, u, x, X or p consumes exactly one
\* argument, the next one in left-to-right order, and is rendered from it;
\* a "%%", an unrecognized directive and a literal character consume none.
C11_ArgumentOrder ==
    [][ (pc = "loop" /\ pc' = "loop") =>
          LET consuming == /\ At(format, fp) = CH_PERCENT
                           /\ Parsed.spec.type \in ConsumingTypes
          IN  /\ ap' = ap + (IF consuming THEN 1 ELSE 0)
              /\ last'.took = ap' - ap
              /\ (consuming /\ ap < Len(args)) =>
                     /\ last'.arg = args[ap + 1]
                     /\ last'.text = Conversion(last'.spec, args[ap + 1]).text
      ]_vars

\* "v=%d, a=0x%x\n" with 42 and 0xdeadbeef: the second directive took the
\* second argument.
C11_Witness ==
    /\ pc = "done"
    /\ ap = 2
    /\ args = <<U64(42), <<0, 0, 57005, 48879>>>>
    /\ out = Bytes(<<"v", "=", "4", "2", ",", " ", "a", "=", "0", "x",
                     "d", "e", "a", "d", "b", "e", "e", "f">>) \o <<LF>>

LONG_MAXIMUM == <<32767, 65535, 65535, 65535>>     \* 2^63 - 1
HIGH_KERNEL == <<65535, 65535, 32768, 0>>          \* 0xFFFFFFFF80000000
LONG_M42 == <<65535, 65535, 65535, 65494>>         \* the long -42

\* C12: with the 'l' modifier d, u, x and X render all 64 bits of the argument
\* (%ld of LONG_MAX, %lx of 0xFFFFFFFF80000000 in full); without it only the
\* low 32 bits count, sign-extended for d and zero-extended for u, x, X, so
\* that there are at most 8 hexadecimal or 10 decimal digits.
C12_LengthModifier ==
    /\ Did({CH_d, CH_u, CH_x, CH_X}) =>
          \E n \in 1..Len(last.text) :
              /\ IsDigitsOf(Suffix(last.text, n), last.spec, last.arg)
              /\ ~Wide(last.spec) =>
                    n <= (IF last.spec.type \in {CH_x, CH_X} THEN 8 ELSE 10)
    /\ (Did({CH_d, CH_u, CH_x, CH_X}) /\ last.spec.width = 0) =>
          LET t == last.spec.type
              w == Wide(last.spec)
              a == last.arg
          IN  /\ (t = CH_d /\ w /\ a = LONG_MAXIMUM) =>
                    last.text = Bytes(<<"9", "2", "2", "3", "3", "7", "2", "0", "3", "6",
                                        "8", "5", "4", "7", "7", "5", "8", "0", "7">>)
              /\ (t = CH_x /\ w /\ a = HIGH_KERNEL) =>
                    last.text = Bytes(<<"f", "f", "f", "f", "f", "f", "f", "f",
                                        "8", "0", "0", "0", "0", "0", "0", "0">>)
              /\ (t = CH_x /\ ~w /\ a = HIGH_KERNEL) =>
                    last.text = Bytes(<<"8", "0", "0", "0", "0", "0", "0", "0">>)
              /\ (t = CH_d /\ ~w /\ a \in {INT_M42, LONG_M42}) =>
                    last.text = Bytes(<<"-", "4", "2">>)
              /\ (t = CH_d /\ w /\ a = INT_M42) =>
                    last.text = Bytes(<<"4", "2", "9", "4", "9", "6", "7", "2", "5", "4">>)
              /\ (t = CH_u /\ ~w /\ a = LONG_M42) =>
                    last.text = Bytes(<<"4", "2", "9", "4", "9", "6", "7", "2", "5", "4">>)

\* %x of 0xFFFFFFFF80000000 without the modifier: the low half only.
C12_Witness ==
    /\ Did({CH_x})
    /\ ~Wide(last.spec)
    /\ last.arg = HIGH_KERNEL
    /\ last.text = Bytes(<<"8", "0", "0", "0", "0", "0", "0", "0">>)

\* The characters a directive may hold between its '%' and its type.
DirectiveChars ==
    {CH_MINUS, CH_PLUS, CH_SPACE, CH_HASH, CH_DOT, CH_l, CH_h} \cup CH_0..CH_9

\* C13: a directive whose type character is not NUL and none of c, s, d, u, x,
\* X, p, % emits nothing and consumes no argument; the character after the
\* type character is handled next.
C13_UnrecognizedType ==
    /\ [][ ( /\ pc = "loop"
             /\ At(format, fp) = CH_PERCENT
             /\ Parsed.spec.type \notin SupportedTypes \cup {NUL} ) =>
              /\ out' = out
              /\ ap' = ap
              /\ pc' = "loop"
              /\ fp' > fp + 1
              /\ format[fp' - 1] = Parsed.spec.type
              /\ \A i \in (fp + 1)..(fp' - 2) : format[i] \in DirectiveChars
         ]_vars
    /\ [](pc = "done" =>
            /\ (Template = <<CH_PERCENT, CH_q, CH_PERCENT, CH_d>> /\ args = <<INT_M42>>) =>
                  out = Bytes(<<"-", "4", "2">>) /\ ap = 1
            /\ Template = <<CH_PERCENT, CH_q, CH_a>> => out = <<CH_a>>)

\* "%q%d" with -42: the unknown directive leaves the argument to %d.
C13_Witness ==
    /\ pc = "done"
    /\ Template = <<CH_PERCENT, CH_q, CH_PERCENT, CH_d>>
    /\ args = <<INT_M42>>
    /\ out = Bytes(<<"-", "4", "2">>)

\* C14: printk never reads the template beyond its terminating NUL, also when
\* the template ends inside a directive ("%", "%0", "%8", "%.", "%l").
C14_StopsAtTerminator == pc = "loop" => fp <= NulIndex

\* The directive with everything but width, '0' flag, length and type removed.
StrippedSpec(spec) ==
    parse_format_spec(
        Directive(IF spec.pad_with_zeros THEN <<CH_0>> ELSE <<>>, spec.width, <<>>,
                  IF spec.length_modifier = NUL THEN <<>> ELSE <<spec.length_modifier>>,
                  spec.type) \o <<NUL>>, 1).spec

\* C15: the flags '-', '+', ' ' and '#' and a precision change nothing: a
\* directive emits what the directive without them emits for the same argument.
C15_InertFlags ==
    /\ Did(SupportedTypes) =>
          /\ StrippedSpec(last.spec) = [ZeroSpec EXCEPT
                                           !.width = last.spec.width,
                                           !.pad_with_zeros = last.spec.pad_with_zeros,
                                           !.length_modifier = last.spec.length_modifier,
                                           !.type = last.spec.type]
          /\ last.text = Conversion(StrippedSpec(last.spec), last.arg).text
    /\ (Did({CH_d}) /\ last.arg = U64(42) /\ last.spec.width = 0) =>
          last.text = Bytes(<<"4", "2">>)
    /\ (Did({CH_x}) /\ last.arg = U64(42) /\ last.spec.width = 3
          /\ ~last.spec.pad_with_zeros) =>
          last.text = Bytes(<<" ", "2", "a">>)

\* %+d of 42 emits no sign.
C15_Witness ==
    /\ Did({CH_d})
    /\ last.spec.show_sign
    /\ last.arg = U64(42)
    /\ last.text = Bytes(<<"4", "2">>)

-----------------------------------------------------------------------------
\* Successive printk calls, as kernel_main makes them.

MaxCalls == 3

\* The templates and arguments of the calls; the first one has a directive of
\* every type.
RepeatCalls ==
    { Call(Bytes(<<"a", "%", "%", "%", "c", "%", "s", "%", "d", "%", "u", "%", "p",
                   "%", "x", "%", "X", "%", "q">>) \o <<LF>>,
           <<U64(66), PTR_HI, INT_M42, U64(42), PTR_HI, <<0, 0, 57005, 48879>>, U64(255)>>),
      Call(Bytes(<<"%", "d">>), <<INT_M42>>),
      Call(Bytes(<<"%", "d">>), <<U64(42)>>),
      Call(Bytes(<<"%", "s">>), <<PTR_HI>>),
      Call(Bytes(<<"%">>), <<>>) }

\* void printk(const char *format, ...) { va_list ap; va_start(ap, format); ...
\* The template is in memory followed by whatever that memory holds after it.
Enter(call, tail) ==
    /\ format' = call.text \o <<NUL>> \o tail
    /\ args' = call.args
    /\ fp' = 1
    /\ ap' = 0
    /\ out' = <<>>
    /\ pc' = "loop"
    /\ last' = NoIteration

\* The caller goes on to its next printk call.
Invoke ==
    /\ pc = "done"
    /\ Len(calls) < MaxCalls
    /\ calls' = Append(calls, [text |-> Template, args |-> args, out |-> out])
    /\ \E call \in RepeatCalls, tail \in Tails : Enter(call, tail)
    /\ UNCHANGED <<dump_vars, rest>>

InitCalls ==
    \E call \in RepeatCalls, tail \in Tails :
        /\ format = call.text \o <<NUL>> \o tail
        /\ args = call.args
        /\ fp = 1
        /\ ap = 0
        /\ out = <<>>
        /\ pc = "loop"
        /\ last = NoIteration
        /\ calls = <<>>
        /\ NoDump
        /\ NoRest

NextCalls ==
    \/ Next
    \/ Invoke

SpecCalls == InitCalls /\ [][NextCalls]_vars

\* C17: two printk calls with the same template and the same argument values
\* emit the same bytes, whatever calls were made before and between them.
C17_SameCallSameBytes ==
    LET done == IF pc = "done"
                THEN Append(calls, [text |-> Template, args |-> args, out |-> out])
                ELSE calls
    IN  \A i, j \in 1..Len(done) :
            (done[i].text = done[j].text /\ done[i].args = done[j].args)
                => done[i].out = done[j].out


-----------------------------------------------------------------------------
\* hex_dump (kernel/src/utils/hex_dump.c): one step per row of the dump.

MaxLen == 33
MaxRows == 4

\* The contents of memory: the byte stored at an address.
MemoryImage == <<0, 9, 15, 16, 31, 32, 65, 97, 126, 127, 128, 255, 10, 48, 122, 200>>

\* unsigned char byte = *(unsigned char *)byte_addr;
MemoryByte(byte_addr) == MemoryImage[((byte_addr[4] + byte_addr[4] \div 16) % 16) + 1]

\* a < b for unsigned long
Less64(a, b) == \E i \in 1..4 : a[i] < b[i] /\ \A j \in 1..(i - 1) : a[j] = b[j]

\* unsigned long aligned_addr = num_addr & ~ 0xF;
AlignDown16(a) == <<a[1], a[2], a[3], a[4] - (a[4] % 16)>>

\* num_addr + len, modulo 2^64
EndAddr == AddSmall(num_addr, len)

\* if (byte_addr < num_addr || byte_addr >= num_addr + len)
OutOfRange(byte_addr) == Less64(byte_addr, num_addr) \/ ~Less64(byte_addr, EndAddr)

\* A variant without the "0" before a value below 0x10.
HexCell_NoZeroFill(byte_addr) ==
    IF OutOfRange(byte_addr) THEN printk(Bytes(<<".", ".", " ">>), <<>>)
    ELSE printk(Bytes(<<"%", "x", " ">>), <<U64(MemoryByte(byte_addr))>>)

\* The first inner loop's body: printk(".. ") or, for a byte in the region,
\* printk("0") when it is below 0x10 and printk("%x ", byte).
HexCell(byte_addr) ==
    IF OutOfRange(byte_addr) THEN printk(Bytes(<<".", ".", " ">>), <<>>)
    ELSE LET byte == MemoryByte(byte_addr)
         IN  (IF byte < 16 THEN printk(Bytes(<<"0">>), <<>>) ELSE <<>>)
             \o printk(Bytes(<<"%", "x", " ">>), <<U64(byte)>>)

\* The second inner loop's body: printk("%c", byte) for a byte of the region
\* with 31 < byte < 127, else printk(".").
AsciiCell(byte_addr) ==
    IF OutOfRange(byte_addr) THEN printk(Bytes(<<".">>), <<>>)
    ELSE LET byte == MemoryByte(byte_addr)
         IN  IF byte > 31 /\ byte < 127
             THEN printk(Bytes(<<"%", "c">>), <<U64(byte)>>)
             ELSE printk(Bytes(<<".">>), <<>>)

\* Everything one iteration of the row loop prints.
RowText ==
    printk(Bytes(<<"0", "x", "%", "x", ":", " ", " ", " ", " ">>), <<row_addr>>)
    \o Flatten([col \in 1..16 |-> HexCell(AddSmall(row_addr, col - 1))])
    \o printk(Bytes(<<" ", " ", " ">>), <<>>)
    \o Flatten([col \in 1..16 |-> AsciiCell(AddSmall(row_addr, col - 1))])
    \o printk(<<LF>>, <<>>)

\* The addresses one iteration of the row loop dereferences, in order: the
\* first inner loop's, then the second's.
RowReads ==
    LET cells == SelectSeq([col \in 1..16 |-> AddSmall(row_addr, col - 1)],
                           LAMBDA a : ~OutOfRange(a))
    IN  cells \o cells

\* for (...; row_addr < num_addr + len; row_addr += 16) { ... }
HexDumpRow ==
    /\ hpc = "row"
    /\ Less64(row_addr, EndAddr)
    /\ rows < MaxRows
    /\ out' = kputc(out, RowText)
    /\ row' = [base |-> row_addr, text |-> RowText, reads |-> row.reads \o RowReads]
    /\ rows' = rows + 1
    /\ row_addr' = AddSmall(row_addr, 16)
    /\ UNCHANGED <<format, fp, args, ap, pc, last, calls, num_addr, len, hpc, rest>>

\* The row loop's condition is false: hex_dump returns.
HexDumpReturn ==
    /\ hpc = "row"
    /\ ~Less64(row_addr, EndAddr)
    /\ hpc' = "done"
    /\ UNCHANGED <<printk_vars, calls, num_addr, len, row_addr, rows, row, rest>>

\* The start addresses: in RAM at every offset within a row, around 2^32, in
\* the kernel's high half and at both ends of the address space.
DumpStarts ==
    { <<0, 0, 16384, o>> : o \in 0..17 }
    \cup { Zero64, <<0, 0, 65535, 65528>>, <<0, 1, 0, 0>>, <<0, 1, 0, 5>>,
           <<65535, 65535, 32768, 0>>, <<65535, 65535, 65535, 65504>>,
           <<65535, 65535, 65535, 65528>> }

InitDump ==
    \E start \in DumpStarts, n \in 0..MaxLen :
        /\ num_addr = start
        /\ len = n
        /\ row_addr = AlignDown16(start)
        /\ hpc = "row"
        /\ rows = 0
        /\ row = NoRow
        /\ format = <<NUL>>
        /\ fp = 1
        /\ args = <<>>
        /\ ap = 0
        /\ out = <<>>
        /\ pc = "done"
        /\ last = NoIteration
        /\ calls = <<>>
        /\ NoRest

NextDump ==
    \/ HexDumpRow
    \/ HexDumpReturn

SpecDump == InitDump /\ [][NextDump]_vars

\* What follows is the reading of a row that the claims are stated in.

LowerHex == Bytes(<<"0", "1", "2", "3", "4", "5", "6", "7",
                    "8", "9", "a", "b", "c", "d", "e", "f">>)

HexPair(b) == <<LowerHex[(b \div 16) + 1], LowerHex[(b % 16) + 1]>>

\* The offset of the start address in its row, and the first row's base.
StartOffset == num_addr[4] % 16

FirstBase == <<num_addr[1], num_addr[2], num_addr[3], num_addr[4] - StartOffset>>

\* A row after its address prefix is 16 cells of 3, 3 spaces, 16 characters
\* and the newline.
BodyLen == 16 * 3 + 3 + 16 + 1

RowBody == Suffix(row.text, BodyLen)

RowPrefix == Prefix(row.text, Len(row.text) - BodyLen)

\* Column i of the latest row, counted in bytes from the first row's base.
CellIndex(i) == 16 * (rows - 1) + i

InRegion(i) == StartOffset <= CellIndex(i) /\ CellIndex(i) < StartOffset + len

CellByte(i) == MemoryByte(Add64(FirstBase, U64(CellIndex(i))))

\* C18: after its address prefix a row is 16 hex cells, 16 ASCII cells and a
\* newline; a cell of the region shows the byte as two lowercase hex digits
\* and as itself when it is in 32..126, else as '.'; a cell outside the region
\* shows ".." and '.'.
C18_RowLayout ==
    rows > 0 =>
        /\ Len(row.text) > BodyLen
        /\ \A i \in 0..15 :
              /\ SubSeq(RowBody, 3 * i + 1, 3 * i + 3)
                    = (IF InRegion(i) THEN HexPair(CellByte(i)) ELSE <<CH_DOT, CH_DOT>>)
                      \o <<CH_SPACE>>
              /\ RowBody[52 + i]
                    = IF InRegion(i) /\ CellByte(i) >= 32 /\ CellByte(i) <= 126
                      THEN CellByte(i) ELSE CH_DOT
        /\ SubSeq(RowBody, 49, 51) = <<CH_SPACE, CH_SPACE, CH_SPACE>>
        /\ RowBody[BodyLen] = LF
        /\ LF \notin Range(Prefix(row.text, Len(row.text) - 1))
        /\ Prefix(RowPrefix, 2) = Bytes(<<"0", "x">>)
        /\ Suffix(RowPrefix, 5) = Bytes(<<":", " ", " ", " ", " ">>)

\* Five bytes 0f 10 1f 20 41 from 0x40000002.
C18_Witness ==
    /\ hpc = "done"
    /\ rows = 1
    /\ num_addr = <<0, 0, 16384, 2>>
    /\ len = 5
    /\ row.text =
        Bytes(<<"0", "x", "4", "0", "0", "0", "0", "0", "0", "0", ":", " ", " ", " ",
                " ", ".", ".", " ", ".", ".", " ", "0", "f", " ", "1", "0", " ", "1",
                "f", " ", "2", "0", " ", "4", "1", " ", ".", ".", " ", ".", ".", " ",
                ".", ".", " ", ".", ".", " ", ".", ".", " ", ".", ".", " ", ".", ".",
                " ", ".", ".", " ", ".", ".", " ", " ", " ", " ", ".", ".", ".", ".",
                ".", " ", "A", ".", ".", ".", ".", ".", ".", ".", ".", ".">>) \o <<LF>>

\* The region ends within the address space.
EndsInSpace ==
    ~(num_addr[1] = 65535 /\ num_addr[2] = 65535 /\ num_addr[3] = 65535
        /\ num_addr[4] + len > 65535)

\* C19: for a length of at least 1 hex_dump prints exactly the rows from the
\* one holding the start address to the one holding the last byte, that is
\* ceil((offset of start in its row + len) / 16) rows with consecutive bases.
C19_RowCount ==
    (hpc \in {"row", "done"} /\ len >= 1 /\ EndsInSpace) =>
        LET expected == (StartOffset + len + 15) \div 16
        IN  /\ rows <= expected
            /\ hpc = "done" => rows = expected
            /\ rows > 0 => row.base = Add64(FirstBase, U64(16 * (rows - 1)))

\* C20: a row's address prefix is "0x", the hexadecimal value of the row's
\* whole 64-bit base address, and ":    ".
C20_FullAddressPrefix ==
    rows > 0 =>
        LET n == Len(RowPrefix) - 7
        IN  /\ n >= 1
            /\ Prefix(RowPrefix, 2) = Bytes(<<"0", "x">>)
            /\ Suffix(RowPrefix, 5) = Bytes(<<":", " ", " ", " ", " ">>)
            /\ Canonical(SubSeq(RowPrefix, 3, 2 + n), 16, FALSE, row.base)


-----------------------------------------------------------------------------
\* The byte sink: uart_putc (kernel/src/drivers/uart.c) and the UART's transmit
\* FIFO.  kputc is uart_putc: printk hands its bytes over one call at a time,
\* and goes on only when the call has returned.

FifoDepth == 2

\* UART_FR & UART_FR_TXFF: the transmit FIFO is full.
TXFF == Len(fifo) = FifoDepth

\* Every uart_putc call made so far has returned.
Drained == upc = "idle" /\ sent = Len(out)

\* uart_putc(c) is entered with the next byte.
UartCall ==
    /\ upc = "idle"
    /\ sent < Len(out)
    /\ upc' = "poll"
    /\ UNCHANGED <<printk_vars, calls, dump_vars, fifo, wire, sent, wedged, puts_vars, level>>

\* A variant that does not look at the flag register.
UartPoll_NoWait ==
    /\ upc = "poll"
    /\ upc' = "write"
    /\ UNCHANGED <<printk_vars, calls, dump_vars, fifo, wire, sent, wedged, puts_vars, level>>

\* A variant that gives up on a full FIFO and returns without writing.
UartPoll_GivesUp ==
    /\ upc = "poll"
    /\ IF TXFF THEN upc' = "idle" /\ sent' = sent + 1
               ELSE upc' = "write" /\ sent' = sent
    /\ UNCHANGED <<printk_vars, calls, dump_vars, fifo, wire, wedged, puts_vars, level>>

\* A variant that waits while the FIFO is not full.
UartPoll_Inverted ==
    /\ upc = "poll"
    /\ upc' = (IF TXFF THEN "write" ELSE "poll")
    /\ UNCHANGED <<printk_vars, calls, dump_vars, fifo, wire, sent, wedged, puts_vars, level>>

\* while (UART_FR & UART_FR_TXFF);  -- one read of the flag register
UartPoll ==
    /\ upc = "poll"
    /\ upc' = (IF TXFF THEN "poll" ELSE "write")
    /\ UNCHANGED <<printk_vars, calls, dump_vars, fifo, wire, sent, wedged, puts_vars, level>>

\* UART_DR = (unsigned int)c;  -- the byte enters the FIFO, or is lost when the
\* FIFO is full; uart_putc returns.
UartWrite ==
    /\ upc = "write"
    /\ fifo' = IF Len(fifo) < FifoDepth THEN Append(fifo, out[sent + 1]) ELSE fifo
    /\ sent' = sent + 1
    /\ upc' = "idle"
    /\ UNCHANGED <<printk_vars, calls, dump_vars, wire, wedged, puts_vars, level>>

\* The hardware shifts the oldest byte of the FIFO out on the line.
UartDrain ==
    /\ ~wedged
    /\ fifo # <<>>
    /\ wire' = Append(wire, Head(fifo))
    /\ fifo' = Tail(fifo)
    /\ UNCHANGED <<printk_vars, calls, dump_vars, sent, upc, wedged, puts_vars, level>>

\* The calls made on the sink: templates whose directives are all complete.
SinkCalls ==
    { c \in RepeatCalls : c.text # Bytes(<<"%">>) }
    \cup { Call(e.text, e.args) : e \in DocExamples }

InitSink ==
    \E call \in SinkCalls, w \in BOOLEAN :
        /\ format = call.text \o <<NUL>>
        /\ args = call.args
        /\ fp = 1
        /\ ap = 0
        /\ out = <<>>
        /\ pc = "loop"
        /\ last = NoIteration
        /\ calls = <<>>
        /\ NoDump
        /\ fifo = <<>>
        /\ wire = <<>>
        /\ sent = 0
        /\ upc = "idle"
        /\ wedged = w
        /\ smem = <<NUL>>
        /\ sp = 1
        /\ spc = "idle"
        /\ level = "none"

\* What the processor does: printk's loop between uart_putc calls, and the
\* calls themselves.
Program ==
    \/ Drained /\ Next
    \/ UartCall
    \/ UartPoll
    \/ UartWrite

NextSink ==
    \/ Program
    \/ UartDrain

SpecSink == InitSink /\ [][NextSink]_vars

\* C21: uart_putc writes the data register only after reading TXFF clear, so
\* no byte is written into a full FIFO; each call puts exactly its one byte
\* into the FIFO, and the bytes pass through the FIFO in the order of the calls.
C21_NeverWritesFullFifo ==
    /\ [][ (upc = "write" /\ upc' # "write") =>
              /\ Len(fifo) < FifoDepth
              /\ fifo' = Append(fifo, out[sent + 1])
              /\ sent' = sent + 1
         ]_vars
    /\ [][ fifo' # fifo =>
              \/ upc = "write" /\ Len(fifo') = Len(fifo) + 1
              \/ fifo' = Tail(fifo) /\ wire' = Append(wire, Head(fifo))
         ]_vars
    /\ [](wire \o fifo = SubSeq(out, 1, sent))

\* The FIFO is full of bytes not yet sent and a further call has got through.
C21_Witness ==
    /\ Len(fifo) = FifoDepth
    /\ Len(wire) >= 1
    /\ sent = Len(wire) + FifoDepth
    /\ upc = "poll"

\* C22: when the hardware never clears TXFF, the uart_putc call that meets the
\* full FIFO never writes the data register and never returns, and the printk
\* call that made it emits nothing more and does not return.
C22_WedgedSinkBlocks ==
    [][ (wedged /\ TXFF /\ upc = "poll") =>
            /\ upc' = "poll"
            /\ sent' = sent
            /\ fifo' = fifo
            /\ wire' = wire
            /\ out' = out
            /\ pc' = pc
            /\ pc = "loop"
      ]_vars

\* A wedged UART with a full FIFO, and printk inside a uart_putc call.
C22_Witness ==
    /\ wedged
    /\ TXFF
    /\ upc = "poll"
    /\ wire = <<>>
    /\ sent = FifoDepth
    /\ sent < Len(out)
    /\ pc = "loop"


-----------------------------------------------------------------------------
\* uart_puts (kernel/src/drivers/uart.c): one step per iteration of its loop.
\* `out` is again the sequence of bytes passed to uart_putc.

CR == 13

MaxStr == 4

\* A variant that sends the '\r' after the '\n'.
PutsStep_CrAfter ==
    /\ spc = "loop"
    /\ At(smem, sp) # NUL
    /\ out' = out \o (IF At(smem, sp) = LF THEN <<LF, CR>> ELSE <<At(smem, sp)>>)
    /\ sp' = sp + 1
    /\ UNCHANGED <<format, fp, args, ap, pc, last, calls, dump_vars, sink_vars, smem, spc, level>>

\* while (*s) { if (*s == '\n') { uart_putc('\r'); } uart_putc(*s++); }
PutsStep ==
    /\ spc = "loop"
    /\ At(smem, sp) # NUL
    /\ out' = out \o (IF At(smem, sp) = LF THEN <<CR, LF>> ELSE <<At(smem, sp)>>)
    /\ sp' = sp + 1
    /\ UNCHANGED <<format, fp, args, ap, pc, last, calls, dump_vars, sink_vars, smem, spc, level>>

\* *s is the terminator: uart_puts returns.
PutsReturn ==
    /\ spc = "loop"
    /\ At(smem, sp) = NUL
    /\ spc' = "done"
    /\ UNCHANGED <<printk_vars, calls, dump_vars, sink_vars, smem, sp, level>>

\* The strings: every sequence of up to MaxStr of these characters.
PutsChars == {Ord("H"), Ord("i"), LF, CR, CH_SPACE}

PutsStrings == UNION { [1..n -> PutsChars] : n \in 0..MaxStr }

InitPuts ==
    \E text \in PutsStrings, tail \in Tails :
        /\ smem = text \o <<NUL>> \o tail
        /\ sp = 1
        /\ spc = "loop"
        /\ format = <<NUL>>
        /\ fp = 1
        /\ args = <<>>
        /\ ap = 0
        /\ out = <<>>
        /\ pc = "done"
        /\ last = NoIteration
        /\ calls = <<>>
        /\ NoDump
        /\ fifo = <<>>
        /\ wire = <<>>
        /\ sent = 0
        /\ upc = "idle"
        /\ wedged = FALSE
        /\ level = "none"

NextPuts ==
    \/ PutsStep
    \/ PutsReturn

SpecPuts == InitPuts /\ [][NextPuts]_vars

\* The string at the pointer: the bytes before the first NUL.
PutsText == SubSeq(smem, 1, FirstNul(smem) - 1)

\* A text with a '\r' put before each of its '\n'.
WithCR(text) == Flatten([i \in 1..Len(text) |-> IF text[i] = LF THEN <<CR, LF>> ELSE <<text[i]>>])

\* C23: uart_puts passes the string's bytes in order to uart_putc, with one
\* '\r' immediately before each '\n' and nothing else added, dropped or
\* changed; the terminator and what follows it are not passed ("Hi\n" gives
\* 'H', 'i', '\r', '\n').
C23_CrBeforeLf ==
    /\ spc = "loop" => sp <= FirstNul(smem) /\ out = WithCR(SubSeq(PutsText, 1, sp - 1))
    /\ spc = "done" =>
          /\ out = WithCR(PutsText)
          /\ SelectSeq(out, LAMBDA c : c # CR) = SelectSeq(PutsText, LAMBDA c : c # CR)
          /\ Len(out) = Len(PutsText) + Len(SelectSeq(PutsText, LAMBDA c : c = LF))
          /\ \A i \in 1..Len(out) : out[i] = LF => (i > 1 /\ out[i - 1] = CR)
          /\ NUL \notin Range(out)
          /\ PutsText = <<Ord("H"), Ord("i"), LF>> => out = <<Ord("H"), Ord("i"), CR, LF>>

\* "Hi\n" was sent as 'H', 'i', '\r', '\n'.
C23_Witness ==
    /\ spc = "done"
    /\ PutsText = <<Ord("H"), Ord("i"), LF>>
    /\ out = <<Ord("H"), Ord("i"), CR, LF>>


-----------------------------------------------------------------------------
\* The log macros (kernel/include/lib/printk.h): each expands to a printk call
\* whose template is the concatenation of the tag's string literals and fmt.
\* colors.h defines the escape sequences as docs/printk.md lists them.

ESC == 27

COLOR_RESET == <<ESC>> \o Bytes(<<"[", "0", "m">>)

COLOR_RED == <<ESC>> \o Bytes(<<"[", "3", "1", "m">>)

COLOR_YELLOW == <<ESC>> \o Bytes(<<"[", "3", "3", "m">>)

COLOR_CYAN == <<ESC>> \o Bytes(<<"[", "3", "6", "m">>)

\* #define LOG_ERROR(fmt, ...) printk(COLOR_RED "[ERROR]" COLOR_RESET " " fmt, ...)
LOG_ERROR(fmt) ==
    COLOR_RED \o Bytes(<<"[", "E", "R", "R", "O", "R", "]">>) \o COLOR_RESET
    \o Bytes(<<" ">>) \o fmt

\* #define LOG_WARN(fmt, ...) printk(COLOR_YELLOW "[WARN]" COLOR_RESET "  " fmt, ...)
LOG_WARN(fmt) ==
    COLOR_YELLOW \o Bytes(<<"[", "W", "A", "R", "N", "]">>) \o COLOR_RESET
    \o Bytes(<<" ", " ">>) \o fmt

\* #define LOG_INFO(fmt, ...) printk("[INFO]" "  " fmt, ...)
LOG_INFO(fmt) == Bytes(<<"[", "I", "N", "F", "O", "]">>) \o Bytes(<<" ", " ">>) \o fmt

\* With DEBUG or LOG_LEVEL_DEBUG defined:
\* #define LOG_DEBUG(fmt, ...) printk(COLOR_CYAN "[DEBUG]" COLOR_RESET " " fmt, ...)
LOG_DEBUG(fmt) ==
    COLOR_CYAN \o Bytes(<<"[", "D", "E", "B", "U", "G", "]">>) \o COLOR_RESET
    \o Bytes(<<" ">>) \o fmt

LogLevels == {"ERROR", "WARN", "INFO", "DEBUG"}

\* The template a log macro hands to printk.
Expansion(lv, fmt) ==
    CASE lv = "ERROR" -> LOG_ERROR(fmt)
      [] lv = "WARN" -> LOG_WARN(fmt)
      [] lv = "INFO" -> LOG_INFO(fmt)
      [] lv = "DEBUG" -> LOG_DEBUG(fmt)

\* A log macro is used: printk is entered with the expanded template.  Without
\* DEBUG and LOG_LEVEL_DEBUG, LOG_DEBUG is ((void)0): printk is not called.
InitLog ==
    /\ \E lv \in LogLevels, call \in SinkCalls, enabled \in BOOLEAN :
          /\ level = lv
          /\ args = call.args
          /\ IF lv = "DEBUG" /\ ~enabled
             THEN format = <<NUL>> /\ pc = "done"
             ELSE format = Expansion(lv, call.text) \o <<NUL>> /\ pc = "loop"
    /\ fp = 1
    /\ ap = 0
    /\ out = <<>>
    /\ last = NoIteration
    /\ calls = <<>>
    /\ NoDump
    /\ fifo = <<>>
    /\ wire = <<>>
    /\ sent = 0
    /\ upc = "idle"
    /\ wedged = FALSE
    /\ smem = <<NUL>>
    /\ sp = 1
    /\ spc = "idle"

SpecLog == InitLog /\ [][Next]_vars

\* The tag as documented: its colour, the bracketed level, the reset where
\* coloured, and spaces up to 8 visible columns.
DocumentedTag(lv) ==
    CASE lv = "ERROR" -> COLOR_RED \o Bytes(<<"[", "E", "R", "R", "O", "R", "]">>)
                         \o COLOR_RESET \o Bytes(<<" ">>)
      [] lv = "WARN" -> COLOR_YELLOW \o Bytes(<<"[", "W", "A", "R", "N", "]">>)
                        \o COLOR_RESET \o Bytes(<<" ", " ">>)
      [] lv = "INFO" -> COLOR_CYAN \o Bytes(<<"[", "I", "N", "F", "O", "]">>)
                        \o COLOR_RESET \o Bytes(<<" ", " ">>)
      [] lv = "DEBUG" -> Bytes(<<"[", "D", "E", "B", "U", "G", "]", " ">>)

\* C24: a log macro emits its tag as documented -- "[ERROR]" in red, "[WARN]"
\* in yellow, "[INFO]" in cyan, "[DEBUG]" uncoloured, each followed by the
\* reset (where coloured) and padding to 8 visible columns -- and then the
\* formatted message.
C24_DocumentedTags ==
    (level \in LogLevels /\ pc = "done") =>
        /\ Len(out) >= Len(DocumentedTag(level))
        /\ Prefix(out, Len(DocumentedTag(level))) = DocumentedTag(level)


-----------------------------------------------------------------------------
\* The directive grammar, read off the template.

FlagChars == {CH_MINUS, CH_PLUS, CH_SPACE, CH_HASH, CH_0}

DigitChars == CH_0..CH_9

\* The number a run of decimal digits denotes (0 for the empty run).
RECURSIVE DecValue(_)
DecValue(ds) ==
    IF ds = <<>> THEN 0
    ELSE DecValue(SubSeq(ds, 1, Len(ds) - 1)) * 10 + (ds[Len(ds)] - CH_0)

\* The template characters at positions i..j.
Run(i, j) == [k \in 1..(j - i + 1) |-> At(format, i + k - 1)]

\* C25: from a '%', parse_format_spec takes the longest run of flag characters
\* (- + space # 0), then the longest run of digits as the width, then an
\* optional '.' with its longest digit run as the precision, then at most one
\* 'l' or 'h', then one type character, and the template goes on after it; so
\* in "%8-d" and "%lld" the type is '-' or 'l', an unrecognized one, and the
\* 'd' is emitted as text without consuming an argument, and "%010d" zero-pads
\* to width 10.
C25_DirectiveGrammar ==
    /\ [][ (pc = "loop" /\ At(format, fp) = CH_PERCENT) =>
             \E a, b, c, d \in fp..(fp' - 2) :
                /\ a <= b /\ b <= c /\ c <= d
                /\ Range(Run(fp + 1, a)) \subseteq FlagChars
                /\ At(format, a + 1) \notin FlagChars
                /\ Range(Run(a + 1, b)) \subseteq DigitChars
                /\ At(format, b + 1) \notin DigitChars
                /\ IF At(format, b + 1) = CH_DOT
                   THEN /\ c > b
                        /\ Range(Run(b + 2, c)) \subseteq DigitChars
                        /\ At(format, c + 1) \notin DigitChars
                   ELSE c = b
                /\ d = (IF At(format, c + 1) \in {CH_l, CH_h} THEN c + 1 ELSE c)
                /\ fp' = d + 2
                /\ last'.spec =
                     [ pad_with_zeros |-> CH_0 \in Range(Run(fp + 1, a)),
                       left_align |-> CH_MINUS \in Range(Run(fp + 1, a)),
                       show_sign |-> CH_PLUS \in Range(Run(fp + 1, a)),
                       alt_form |-> CH_HASH \in Range(Run(fp + 1, a)),
                       width |-> DecValue(Run(a + 1, b)),
                       precision |-> DecValue(Run(b + 2, c)),
                       has_precision |-> c > b,
                       length_modifier |-> IF d > c THEN At(format, d) ELSE NUL,
                       type |-> At(format, d + 1) ]
         ]_vars
    /\ [](pc = "done" =>
            /\ Template = Bytes(<<"%", "8", "-", "d">>) => out = <<CH_d>> /\ ap = 0
            /\ Template = Bytes(<<"%", "l", "l", "d">>) => out = <<CH_d>> /\ ap = 0
            /\ (Template = Bytes(<<"%", "0", "1", "0", "d">>) /\ args = <<U64(42)>>) =>
                  out = Bytes(<<"0", "0", "0", "0", "0", "0", "0", "0", "4", "2">>))

\* "%lld" with 42: only the 'd' came out and the argument was not taken.
C25_Witness ==
    /\ pc = "done"
    /\ Template = Bytes(<<"%", "l", "l", "d">>)
    /\ args = <<U64(42)>>
    /\ out = <<CH_d>>
    /\ ap = 0


-----------------------------------------------------------------------------
\* The converters' digit buffers: char buffer[21] in print_number and
\* print_unsigned, char buffer[16] in print_hex.  The index i is the number of
\* digits stored so far; buffer[i++] writes at i, buffer[--i] reads at i - 1.

DecimalCapacity == 21

HexCapacity == 16

\* The buffer the latest directive's converter filled.
LastBuffer ==
    CASE last.spec.type = CH_d -> DecimalBuffer(Magnitude(SignedArg(last.arg, last.spec)))
      [] last.spec.type = CH_u -> DecimalBuffer(UnsignedArg(last.arg, last.spec))
      [] last.spec.type = CH_x -> HexBuffer(UnsignedArg(last.arg, last.spec), FALSE)
      [] last.spec.type = CH_X -> HexBuffer(UnsignedArg(last.arg, last.spec), TRUE)
      [] last.spec.type = CH_p -> HexBuffer(last.arg, FALSE)

\* C26: the digit-buffer index stays inside the buffer: at most 20 digits go
\* into the 21-byte buffers of print_number and print_unsigned and at most 16
\* into the 16-byte buffer of print_hex, at least one digit is stored, and
\* the digits are emitted from index i - 1 down to index 0.
C26_BufferIndexInBounds ==
    (Did({CH_d, CH_u, CH_x, CH_X, CH_p}) /\ ~(last.spec.type = CH_p /\ last.arg = Zero64)) =>
        LET buffer == LastBuffer
            i == Len(buffer)
            decimal == last.spec.type \in {CH_d, CH_u}
        IN  /\ i >= 1
            /\ i <= (IF decimal THEN 20 ELSE 16)
            /\ i <= (IF decimal THEN DecimalCapacity ELSE HexCapacity)
            /\ Len(last.text) >= i
            /\ \A k \in 0..(i - 1) : last.text[Len(last.text) - k] = buffer[k + 1]

\* %lx of 2^64-1 fills all 16 bytes of print_hex's buffer.
C26_Witness ==
    /\ Did({CH_x})
    /\ Wide(last.spec)
    /\ last.arg = <<65535, 65535, 65535, 65535>>
    /\ Len(LastBuffer) = HexCapacity
    /\ Suffix(last.text, 16) = Repeat(16, Ord("f"))


\* C29: the 'h' modifier is consumed and changes nothing: a d, u, x or X
\* directive with it takes the same one argument and emits the same bytes as
\* the directive without a length modifier; the value is not cut to 16 bits.
C29_ShortModifierInert ==
    (Did({CH_d, CH_u, CH_x, CH_X}) /\ last.spec.length_modifier = CH_h) =>
        LET plain == [last.spec EXCEPT !.length_modifier = NUL]
        IN  /\ last.took = 1
            /\ format[fp - 2] = CH_h
            /\ last.text = Conversion(plain, last.arg).text
            /\ \E n \in 1..Len(last.text) : IsDigitsOf(Suffix(last.text, n), plain, last.arg)
            /\ (last.spec.type = CH_x /\ last.arg = <<0, 0, 57005, 48879>>
                  /\ last.spec.width = 0) =>
                  last.text = Bytes(<<"d", "e", "a", "d", "b", "e", "e", "f">>)

\* %hx of 0xdeadbeef emits all eight digits.
C29_Witness ==
    /\ Did({CH_x})
    /\ last.spec.length_modifier = CH_h
    /\ last.arg = <<0, 0, 57005, 48879>>
    /\ last.text = Bytes(<<"d", "e", "a", "d", "b", "e", "e", "f">>)


-----------------------------------------------------------------------------
\* What hex_dump reads.

\* Byte k of the region lies beyond the last address.
BeyondSpace(k) ==
    /\ num_addr[1] = 65535 /\ num_addr[2] = 65535 /\ num_addr[3] = 65535
    /\ num_addr[4] + k > 65535

\* The addresses a with start <= a < start + len.
RegionBytes == { Add64(num_addr, U64(k)) : k \in {j \in 0..(len - 1) : ~BeyondSpace(j)} }

\* How often an address was dereferenced.
TimesRead(a) == Len(SelectSeq(row.reads, LAMBDA r : r = a))

\* The rows the region lies in have all been printed.
RowsPrinted == hpc = "done" \/ rows >= (StartOffset + len + 15) \div 16

\* C27 as stated: for every start and len hex_dump reads no byte outside
\* [start, start+len), and reads every byte inside it twice.
C27_ReadsExactlyTheRegion ==
    (hpc \in {"row", "done"}) =>
        /\ Range(row.reads) \subseteq RegionBytes
        /\ \A a \in RegionBytes : TimesRead(a) \in {0, 2}
        /\ RowsPrinted => \A a \in RegionBytes : TimesRead(a) = 2

\* C28: with len = 0 hex_dump reads no memory; it prints no row when the
\* start address is a multiple of 16 and exactly one row, of ".." and '.'
\* cells only, when it is not.
C28_ZeroLength ==
    (len = 0 /\ hpc \in {"row", "done"}) =>
        LET expected == IF StartOffset = 0 THEN 0 ELSE 1
        IN  /\ row.reads = <<>>
            /\ rows <= expected
            /\ hpc = "done" => rows = expected
            /\ rows > 0 =>
                  /\ Len(row.text) > BodyLen
                  /\ \A i \in 0..15 :
                        /\ SubSeq(RowBody, 3 * i + 1, 3 * i + 3) = <<CH_DOT, CH_DOT, CH_SPACE>>
                        /\ RowBody[52 + i] = CH_DOT


-----------------------------------------------------------------------------
\* Termination.  The processor keeps executing the program, and the UART keeps
\* transmitting what is in its FIFO unless it is wedged.

\* One iteration of printk's loop, taken between two uart_putc calls.
PrintkStep == Drained /\ Next

\* PrintkStep is enabled exactly when printk is in its loop with no uart_putc
\* call pending: every loop state has an iteration, and it moves the pointer
\* or leaves the loop.
PrintkStepEnabled == Drained /\ pc = "loop"

\* WF_vars(PrintkStep), with the enabling condition written out.
PrintkFair == []<>(~PrintkStepEnabled) \/ []<><<PrintkStep>>_vars

FairSink ==
    /\ SpecSink
    /\ PrintkFair
    /\ WF_vars(UartCall)
    /\ WF_vars(UartPoll)
    /\ WF_vars(UartWrite)
    /\ WF_vars(UartDrain)

\* printk has returned to its caller.
Returned == pc = "done" /\ Drained

\* C30: when the UART always eventually clears TXFF, printk on a template
\* whose directives are all complete returns after finitely many uart_putc
\* calls; every iteration of its loop strictly advances the template pointer,
\* which never passes the terminator, and no uart_putc call is undone.
C30_Terminates ==
    /\ [](~wedged => <>Returned)
    /\ [][ (pc = "loop" /\ fp' # fp) => (fp < fp' /\ fp' <= NulIndex) ]_vars
    /\ [][ sent' >= sent /\ Len(out') >= Len(out) /\ Len(wire') >= Len(wire) ]_vars

\* printk has returned and the UART has sent every byte of its output.
C30_Witness ==
    /\ Returned
    /\ ~wedged
    /\ Len(out) > FifoDepth
    /\ fifo = <<>>
    /\ wire = out

====
